---- MODULE Spec2Model ----
(***************************************************************************)
(* Model of chonkie.refinery.base.BaseRefinery (src/chonkie/refinery/      *)
(* base.py): construction, the __call__ dispatch, the default              *)
(* refine_batch comprehension, the abstract bodies of refine and           *)
(* is_available, and __repr__.                                             *)
(*                                                                         *)
(* One caller drives one instance.  A public operation starts from         *)
(* pc = "idle"; while a call of the subclass's refine is running,          *)
(* pc = "refine"; when the operation has returned or raised, pc = "done"   *)
(* and `result` holds what the caller got.                                 *)
(***************************************************************************)
EXTENDS Integers, Sequences, FiniteSets, TLC

\* Bounds of the explored inputs.
MaxContext == 1
MaxInner == 2
MaxOuter == 3

\* base.py:19, the default of the context_size parameter.
DefaultContextSize == 0

VARIABLES
    self,         \* the instance: [alive, context_size]
    pc,           \* "idle" | "refine" | "done"
    op,           \* the public operation running or last completed
    arg,          \* its argument
    inBatch,      \* a refine_batch frame is on the stack
    idx,          \* position of the comprehension in the batch (0: none)
    acc,          \* results the comprehension has collected so far
    cur,          \* argument of the refine call in progress
    active,       \* number of refine calls in progress
    refineCalls,  \* arguments refine was called with during this operation
    batchCalls,   \* number of refine_batch calls during this operation
    thrown,       \* error refine raised during this operation ("" if none)
    result        \* what the caller got: [status, value, error]

vars == <<self, pc, op, arg, inBatch, idx, acc, cur, active, refineCalls,
          batchCalls, thrown, result>>

----------------------------------------------------------------------------
\* Python values.  Every value is a record of the same shape so that any two
\* of them can be compared.

Chunk(i) == [kind |-> "Chunk", id |-> i, items |-> <<>>]
IntVal(n) == [kind |-> "int", id |-> n, items |-> <<>>]
StrVal == [kind |-> "str", id |-> 0, items |-> <<>>]
BoolVal(b) == [kind |-> "bool", id |-> IF b THEN 1 ELSE 0, items |-> <<>>]
None == [kind |-> "None", id |-> 0, items |-> <<>>]
List(s) == [kind |-> "list", id |-> 0, items |-> s]
Tuple(s) == [kind |-> "tuple", id |-> 0, items |-> s]

\* isinstance(v, Chunk), isinstance(v, list), and the truth value of a list.
IsChunk(v) == v.kind = "Chunk"
IsList(v) == v.kind = "list"
Truthy(v) == Len(v.items) > 0

\* The value a concrete refine returns for `chunks` on an instance configured
\* with `context_size`: an uninterpreted term, so that two results are equal
\* only when they come from the same configuration and the same argument.
refine(context_size, chunks) ==
    [kind |-> "refined", id |-> context_size, items |-> <<chunks>>]

\* Errors a concrete refine can end with: its own failure, or the one of the
\* abstract body (base.py:28) when the override delegates to it.
RefineErrors == {"RuntimeError", "NotImplementedError"}

\* f"{self.__class__.__name__}(context_size={self.context_size})"
FormatRepr(context_size) ==
    [kind |-> "str", id |-> context_size, items |-> <<StrVal>>]

----------------------------------------------------------------------------
\* Inputs.

SeqsUpTo(S, n) == UNION {[1..k -> S] : k \in 0..n}

Atoms == {Chunk(1), IntVal(7)}
InnerLists == {List(s) : s \in SeqsUpTo(Atoms, MaxInner)}
Elements == Atoms \cup InnerLists
Lists == {List(s) : s \in SeqsUpTo(Elements, MaxOuter)}
NonLists == {IntVal(7), StrVal, None, Tuple(<<Chunk(1)>>)}
\* __call__ inspects its argument at run time and is given any value.
Inputs == Lists \cup NonLists
\* refine and refine_batch are called directly with arguments of their
\* annotated types, List[Chunk] and List[List[Chunk]].
ChunkLists == {List(s) : s \in SeqsUpTo({Chunk(1)}, MaxInner)}
Batches == {List(s) : s \in SeqsUpTo(ChunkLists, MaxOuter)}
InitArgs == {<<>>} \cup {<<n>> : n \in (0 - MaxContext)..MaxContext}

----------------------------------------------------------------------------
\* Results.

NoResult == [status |-> "none", value |-> None, error |-> ""]
Returned(v) == [status |-> "return", value |-> v, error |-> ""]
Raised(e) == [status |-> "raise", value |-> None, error |-> e]

NoInstance == [alive |-> FALSE, context_size |-> 0]

Init ==
    /\ self = NoInstance
    /\ pc = "idle"
    /\ op = "none"
    /\ arg = None
    /\ inBatch = FALSE
    /\ idx = 0
    /\ acc = <<>>
    /\ cur = None
    /\ active = 0
    /\ refineCalls = <<>>
    /\ batchCalls = 0
    /\ thrown = ""
    /\ result = NoResult

\* An operation that ends without calling refine: only op, arg and the
\* result change.
Finish(name, a, r) ==
    /\ pc' = "done"
    /\ op' = name
    /\ arg' = a
    /\ result' = r
    /\ UNCHANGED <<inBatch, idx, acc, cur, active, refineCalls, batchCalls,
                   thrown>>

----------------------------------------------------------------------------
\* BaseRefinery.__init__ (base.py:19-23)

\* A plausible slip: zero rejected together with the negative sizes.
InitRaisesOnZero(context_size) == context_size <= 0

InitRaises(context_size) == context_size < 0

ContextSizeArg(args) == IF args = <<>> THEN DefaultContextSize ELSE args[1]

Construct(args) ==
    /\ pc = "idle"
    /\ ~self.alive
    /\ LET context_size == ContextSizeArg(args)
           given == List([i \in 1..Len(args) |-> IntVal(args[i])]) IN
       IF InitRaises(context_size)
       THEN /\ Finish("__init__", given, Raised("ValueError"))
            /\ UNCHANGED self
       ELSE /\ Finish("__init__", given, Returned(None))
            /\ self' = [alive |-> TRUE, context_size |-> context_size]

----------------------------------------------------------------------------
\* The call of the subclass's refine, and the comprehension of refine_batch
\* (base.py:32) around it.

\* Plausible slips of the iteration: the batch walked from its end, and a
\* position that never advances.
BatchElementReversed(chunks_batch, i) ==
    chunks_batch.items[Len(chunks_batch.items) - i + 1]

BatchElementFirst(chunks_batch, i) == chunks_batch.items[1]

\* The element the comprehension hands to refine at position i.
BatchElement(chunks_batch, i) == chunks_batch.items[i]

\* refine is entered with argument x.
EnterRefine(x) ==
    /\ pc' = "refine"
    /\ cur' = x
    /\ active' = active + 1
    /\ refineCalls' = Append(refineCalls, x)

\* refine_batch(chunks_batch) is entered: an empty batch returns [] at once,
\* otherwise refine is called on the first element.
EnterRefineBatch(name, chunks_batch) ==
    /\ op' = name
    /\ arg' = chunks_batch
    /\ batchCalls' = batchCalls + 1
    /\ thrown' = thrown
    /\ IF Len(chunks_batch.items) = 0
       THEN /\ pc' = "done"
            /\ result' = Returned(List(<<>>))
            /\ UNCHANGED <<inBatch, idx, acc, cur, active, refineCalls>>
       ELSE /\ inBatch' = TRUE
            /\ idx' = 1
            /\ acc' = <<>>
            /\ result' = NoResult
            /\ EnterRefine(BatchElement(chunks_batch, 1))

\* The running refine call returns.  Inside refine_batch its result is
\* collected and the comprehension moves on; otherwise it is the result of
\* the operation.
RefineReturn ==
    /\ pc = "refine"
    /\ LET r == refine(self.context_size, cur) IN
       IF inBatch
       THEN /\ acc' = Append(acc, r)
            /\ IF idx < Len(arg.items)
               THEN /\ idx' = idx + 1
                    /\ pc' = "refine"
                    /\ cur' = BatchElement(arg, idx + 1)
                    /\ active' = (active - 1) + 1
                    /\ refineCalls' = Append(refineCalls, cur')
                    /\ UNCHANGED <<inBatch, result>>
               ELSE /\ pc' = "done"
                    /\ active' = active - 1
                    /\ inBatch' = FALSE
                    /\ result' = Returned(List(acc'))
                    /\ UNCHANGED <<idx, cur, refineCalls>>
       ELSE /\ pc' = "done"
            /\ active' = active - 1
            /\ result' = Returned(r)
            /\ UNCHANGED <<inBatch, idx, acc, cur, refineCalls>>
    /\ UNCHANGED <<self, op, arg, batchCalls, thrown>>

\* A plausible slip: the comprehension wrapped in try/except, so that a
\* failing element is skipped and the rest of the batch is still processed.
RefineRaiseSwallowed(e) ==
    /\ pc = "refine"
    /\ thrown' = e
    /\ IF inBatch /\ idx < Len(arg.items)
       THEN /\ idx' = idx + 1
            /\ pc' = "refine"
            /\ cur' = arg.items[idx + 1]
            /\ active' = active
            /\ refineCalls' = Append(refineCalls, cur')
            /\ UNCHANGED <<inBatch, result, acc>>
       ELSE /\ pc' = "done"
            /\ active' = active - 1
            /\ inBatch' = FALSE
            /\ result' = IF inBatch THEN Returned(List(acc)) ELSE Raised(e)
            /\ UNCHANGED <<idx, cur, refineCalls, acc>>
    /\ UNCHANGED <<self, op, arg, batchCalls>>

\* The running refine call raises e: neither the comprehension nor __call__
\* catches it, so the operation ends with e.
RefineRaise(e) ==
    /\ pc = "refine"
    /\ pc' = "done"
    /\ active' = active - 1
    /\ thrown' = e
    /\ inBatch' = FALSE
    /\ result' = Raised(e)
    /\ UNCHANGED <<self, op, arg, idx, acc, cur, refineCalls, batchCalls>>

\* BaseRefinery.refine_batch called directly (base.py:30-32)
RefineBatch(chunks_batch) ==
    /\ pc = "idle"
    /\ self.alive
    /\ EnterRefineBatch("refine_batch", chunks_batch)
    /\ UNCHANGED self

----------------------------------------------------------------------------
\* BaseRefinery.__call__ (base.py:44-77)

\* Plausible slips of the dispatch.
\* A list of Chunks taken for a batch.
DispatchChunkAsBatch(chunks) ==
    IF ~IsList(chunks) \/ ~Truthy(chunks) THEN "passthrough"
    ELSE IF IsChunk(chunks.items[1]) THEN "refine_batch"
    ELSE IF /\ IsList(chunks.items[1])
            /\ Truthy(chunks.items[1])
            /\ IsChunk(chunks.items[1].items[1])
         THEN "refine_batch"
    ELSE "invalid"

\* The empty list not passed through.
DispatchNoEmptyCheck(chunks) ==
    IF ~IsList(chunks) THEN "passthrough"
    ELSE IF Truthy(chunks) /\ IsChunk(chunks.items[1]) THEN "refine"
    ELSE IF /\ Truthy(chunks)
            /\ IsList(chunks.items[1])
            /\ Truthy(chunks.items[1])
            /\ IsChunk(chunks.items[1].items[1])
         THEN "refine_batch"
    ELSE "invalid"

\* Any list as first element taken for a batch, the empty one included.
DispatchAnyListIsBatch(chunks) ==
    IF ~IsList(chunks) \/ ~Truthy(chunks) THEN "passthrough"
    ELSE IF IsChunk(chunks.items[1]) THEN "refine"
    ELSE IF IsList(chunks.items[1]) THEN "refine_batch"
    ELSE "invalid"

\* Every element validated, not only the first.
DispatchValidatesAll(chunks) ==
    IF ~IsList(chunks) \/ ~Truthy(chunks) THEN "passthrough"
    ELSE IF \A i \in 1..Len(chunks.items) : IsChunk(chunks.items[i])
         THEN "refine"
    ELSE IF \A i \in 1..Len(chunks.items) :
                /\ IsList(chunks.items[i])
                /\ Truthy(chunks.items[i])
                /\ IsChunk(chunks.items[i].items[1])
         THEN "refine_batch"
    ELSE "invalid"

\* A plausible slip: __call__ clamping the configured context to the size of
\* its input.
InstanceClampedByCall(chunks) ==
    self' = [self EXCEPT !.context_size = Len(chunks.items)]

\* __call__ assigns no attribute of the instance.
InstanceAfterCall(chunks) == UNCHANGED self

Dispatch(chunks) ==
    IF ~IsList(chunks) \/ ~Truthy(chunks) THEN "passthrough"
    ELSE IF IsChunk(chunks.items[1]) THEN "refine"
    ELSE IF /\ IsList(chunks.items[1])
            /\ Truthy(chunks.items[1])
            /\ IsChunk(chunks.items[1].items[1])
         THEN "refine_batch"
    ELSE "invalid"

Call(chunks) ==
    /\ pc = "idle"
    /\ self.alive
    /\ LET branch == Dispatch(chunks) IN
       CASE branch = "passthrough" ->
                Finish("__call__", chunks, Returned(chunks))
         [] branch = "refine" ->
                /\ op' = "__call__"
                /\ arg' = chunks
                /\ result' = NoResult
                /\ EnterRefine(chunks)
                /\ UNCHANGED <<inBatch, idx, acc, batchCalls, thrown>>
         [] branch = "refine_batch" ->
                EnterRefineBatch("__call__", chunks)
         [] OTHER ->
                Finish("__call__", chunks, Raised("ValueError"))
    /\ InstanceAfterCall(chunks)

----------------------------------------------------------------------------
\* The abstract bodies (base.py:25-28, 34-38) and __repr__ (base.py:40-42)

\* A plausible slip: the abstract body falling through and handing its
\* argument back.
AbstractRefineReturns(chunks) ==
    /\ pc = "idle"
    /\ self.alive
    /\ Finish("BaseRefinery.refine", chunks, Returned(chunks))
    /\ UNCHANGED self

AbstractRefine(chunks) ==
    /\ pc = "idle"
    /\ self.alive
    /\ Finish("BaseRefinery.refine", chunks, Raised("NotImplementedError"))
    /\ UNCHANGED self

IsAvailable ==
    /\ pc = "idle"
    /\ Finish("BaseRefinery.is_available", None, Returned(BoolVal(TRUE)))
    /\ UNCHANGED self

Repr ==
    /\ pc = "idle"
    /\ self.alive
    /\ Finish("__repr__", None, Returned(FormatRepr(self.context_size)))
    /\ UNCHANGED self

\* The caller has its result (or its error) and goes on to the next
\* operation; nothing of the finished one is kept but the instance.
NextOperation ==
    /\ pc = "done"
    /\ pc' = "idle"
    /\ op' = "none"
    /\ arg' = None
    /\ inBatch' = FALSE
    /\ idx' = 0
    /\ acc' = <<>>
    /\ cur' = None
    /\ active' = 0
    /\ refineCalls' = <<>>
    /\ batchCalls' = 0
    /\ thrown' = ""
    /\ result' = NoResult
    /\ UNCHANGED self

\* A public operation is started only by a caller that is not inside one (the
\* guard is stated before the choice of the argument, as in each action).
Next ==
    \/ pc = "idle" /\ \E args \in InitArgs : Construct(args)
    \/ pc = "idle" /\ \E chunks \in Inputs : Call(chunks)
    \/ pc = "idle" /\ \E chunks_batch \in Batches : RefineBatch(chunks_batch)
    \/ RefineReturn
    \/ \E e \in RefineErrors : RefineRaise(e)
    \/ pc = "idle" /\ \E chunks \in ChunkLists : AbstractRefine(chunks)
    \/ IsAvailable
    \/ Repr
    \/ NextOperation

Spec == Init /\ [][Next]_vars

----------------------------------------------------------------------------
\* Properties.

\* Shapes of an argument of __call__.
NonEmptyList(v) == IsList(v) /\ Truthy(v)
StartsWithChunk(v) == NonEmptyList(v) /\ IsChunk(v.items[1])
StartsWithChunkList(v) == NonEmptyList(v) /\ StartsWithChunk(v.items[1])
IsChunkList(v) ==
    NonEmptyList(v) /\ \A i \in 1..Len(v.items) : IsChunk(v.items[i])
IsBatch(v) ==
    NonEmptyList(v) /\ \A i \in 1..Len(v.items) : IsChunkList(v.items[i])

\* What the running or finished operation did, read off the state.
BranchTaken ==
    IF batchCalls > 0 THEN "refine_batch"
    ELSE IF refineCalls # <<>> THEN "refine"
    ELSE IF result.status = "raise" THEN "invalid"
    ELSE "passthrough"

\* [refine(seq) for seq in batch]
Comprehension(context_size, batch) ==
    List([i \in 1..Len(batch.items) |-> refine(context_size, batch.items[i])])

\* C1: __call__ on a non-empty list whose first element is a Chunk calls
\* refine exactly once, with the whole input, never refine_batch, and ends as
\* that refine call ends: it returns what refine returned, or raises what
\* refine raised.
C1_CallOnChunksIsRefine ==
    (op = "__call__" /\ StartsWithChunk(arg)) =>
        /\ batchCalls = 0
        /\ refineCalls = <<arg>>
        /\ pc # "idle"
        /\ (pc = "done" =>
                \/ result = Returned(refine(self.context_size, arg))
                \/ thrown \in RefineErrors /\ result = Raised(thrown))

C1_Witness ==
    /\ pc = "done"
    /\ op = "__call__"
    /\ StartsWithChunk(arg)
    /\ Len(arg.items) > 1
    /\ result.status = "return"

\* C2: on a non-empty batch of non-empty lists of Chunk, __call__ and
\* refine_batch return the same value: a list as long as the batch whose i-th
\* element is refine(batch[i]); __call__ gets it from one refine_batch call.
C2_BatchIsElementwiseRefine ==
    (/\ pc = "done"
     /\ op \in {"__call__", "refine_batch"}
     /\ IsBatch(arg)
     /\ result.status = "return") =>
        /\ batchCalls = 1
        /\ result.value = Comprehension(self.context_size, arg)
        /\ Len(result.value.items) = Len(arg.items)
        /\ \A i \in 1..Len(arg.items) :
               result.value.items[i] = refine(self.context_size, arg.items[i])

C2_Witness ==
    /\ pc = "done"
    /\ op = "__call__"
    /\ IsBatch(arg)
    /\ Len(arg.items) = 3
    /\ arg.items[1] # arg.items[2]
    /\ result.status = "return"

\* C3: __call__ on a value that is not a list, or on the empty list, returns
\* that value, raises nothing and calls neither refine nor refine_batch.
C3_PassThrough ==
    (op = "__call__" /\ ~NonEmptyList(arg)) =>
        /\ pc = "done"
        /\ result = Returned(arg)
        /\ refineCalls = <<>>
        /\ batchCalls = 0

C3_Witness ==
    /\ pc = "done"
    /\ op = "__call__"
    /\ arg = List(<<>>)
    /\ result.status = "return"

\* C4: __call__ on a non-empty list whose first element is neither a Chunk
\* nor a non-empty list starting with a Chunk raises ValueError and calls
\* neither refine nor refine_batch; [[]] is such an input.
C4_InvalidInput ==
    (/\ op = "__call__"
     /\ NonEmptyList(arg)
     /\ ~StartsWithChunk(arg)
     /\ ~StartsWithChunkList(arg)) =>
        /\ pc = "done"
        /\ result = Raised("ValueError")
        /\ refineCalls = <<>>
        /\ batchCalls = 0

C4_Witness ==
    /\ pc = "done"
    /\ op = "__call__"
    /\ arg = List(<<List(<<>>)>>)
    /\ result.status = "raise"

\* C5: when refine raises on the k-th element of a batch, refine_batch (called
\* directly or through __call__) is over and has raised that very error;
\* refine was called on the first k elements only, and the caller got no
\* value.
C5_BatchErrorPropagates ==
    (batchCalls > 0 /\ thrown # "") =>
        /\ pc = "done"
        /\ result = Raised(thrown)
        /\ result.value = None
        /\ Len(refineCalls) = idx
        /\ refineCalls = SubSeq(arg.items, 1, idx)
        /\ Len(acc) = idx - 1

C5_Witness ==
    /\ pc = "done"
    /\ op = "__call__"
    /\ batchCalls = 1
    /\ thrown = "RuntimeError"
    /\ Len(arg.items) = 3
    /\ Len(refineCalls) = 2
    /\ Len(acc) = 1

\* C6: construction with context_size = n (0 when omitted) succeeds exactly
\* when n >= 0, and the instance then has context_size = n; for n < 0 it
\* raises ValueError and there is no instance.
C6_Construction ==
    (pc = "done" /\ op = "__init__") =>
        LET n == IF arg.items = <<>> THEN 0 ELSE arg.items[1].id IN
        IF n >= 0
        THEN /\ result.status = "return"
             /\ self.alive
             /\ self.context_size = n
        ELSE /\ result = Raised("ValueError")
             /\ ~self.alive

C6_Witness ==
    /\ pc = "done"
    /\ op = "__init__"
    /\ arg = List(<<IntVal(1)>>)
    /\ self.alive

\* C7 as stated: the abstract refine body and the abstract is_available body
\* both raise NotImplementedError and return no value.
C7_AbstractBodiesRaise ==
    (pc = "done" /\ op \in {"BaseRefinery.refine", "BaseRefinery.is_available"})
        => result = Raised("NotImplementedError")

\* C7 as amended: the abstract refine body raises NotImplementedError and
\* returns no value; the abstract is_available body raises nothing and
\* returns True.
C7_AbstractRefineRaises ==
    /\ (pc = "done" /\ op = "BaseRefinery.refine")
           => result = Raised("NotImplementedError")
    /\ (pc = "done" /\ op = "BaseRefinery.is_available")
           => result = Returned(BoolVal(TRUE))

C7_Witness ==
    /\ pc = "done"
    /\ op = "BaseRefinery.refine"
    /\ Len(arg.items) > 0
    /\ result.status = "raise"

\* C8: refine_batch calls refine on the elements of the batch in input order,
\* each once; a call starts only when all earlier ones have returned, so at
\* most one is in progress; on the empty batch it calls nothing and returns
\* the empty list.
C8_SequentialInOrder ==
    /\ active <= 1
    /\ batchCalls > 0 =>
        /\ batchCalls = 1
        /\ Len(refineCalls) <= Len(arg.items)
        /\ refineCalls = SubSeq(arg.items, 1, Len(refineCalls))
        /\ (pc = "refine" => active = 1 /\ Len(acc) = Len(refineCalls) - 1)
        /\ (pc = "done" => active = 0)
        /\ (pc = "done" /\ result.status = "return" =>
                refineCalls = arg.items /\ Len(acc) = Len(arg.items))
        /\ (arg.items = <<>> =>
                pc = "done" /\ refineCalls = <<>> /\ result = Returned(List(<<>>)))

C8_Witness ==
    /\ op = "refine_batch"
    /\ pc = "refine"
    /\ Len(arg.items) = 3
    /\ Len(refineCalls) = 2
    /\ Len(acc) = 1
    /\ arg.items[1] # arg.items[2]

\* C9: once the instance is constructed, no step of __call__, refine_batch,
\* is_available or __repr__, returning, passing through or raising, changes
\* the instance: context_size keeps the value given at construction.
C9_ContextSizeImmutable == [][self.alive => self' = self]_vars

C9_Witness ==
    /\ self.alive
    /\ self.context_size = 1
    /\ pc = "done"
    /\ op = "__call__"
    /\ result = Raised("ValueError")

\* The shortest inputs of each kind of first element.
HeadProbes ==
    {List(<<e>>) : e \in Atoms \cup {List(<<>>)} \cup {List(<<a>>) : a \in Atoms}}

\* x and y agree on the first element's type and, when it is a list, on its
\* emptiness and on the type of its first element.
SameHead(x, y) ==
    /\ x.items[1].kind = y.items[1].kind
    /\ IsList(x.items[1]) =>
        /\ Truthy(x.items[1]) = Truthy(y.items[1])
        /\ Truthy(x.items[1]) =>
               x.items[1].items[1].kind = y.items[1].items[1].kind

\* C10: on a non-empty list __call__ takes the branch that the input reduced
\* to its first element (and that element to its own first element) takes,
\* whatever the other elements are.  A list starting with a Chunk that holds
\* non-Chunks later goes whole to refine, a list starting with a non-empty
\* list starting with a Chunk goes whole to refine_batch whatever follows, and
\* neither raises ValueError.
C10_DispatchOnFirstElementOnly ==
    (op = "__call__" /\ NonEmptyList(arg)) =>
        /\ \A y \in HeadProbes : SameHead(arg, y) => BranchTaken = Dispatch(y)
        /\ StartsWithChunk(arg) =>
               BranchTaken = "refine" /\ refineCalls = <<arg>>
        /\ StartsWithChunkList(arg) =>
               /\ BranchTaken = "refine_batch"
               /\ refineCalls = SubSeq(arg.items, 1, Len(refineCalls))
               /\ (pc = "refine" => cur = arg.items[idx])
        /\ (StartsWithChunk(arg) \/ StartsWithChunkList(arg)) =>
               result.error # "ValueError"

C10_Witness ==
    /\ op = "__call__"
    /\ pc = "done"
    /\ StartsWithChunkList(arg)
    /\ Len(arg.items) = 3
    /\ arg.items[2] = List(<<>>)
    /\ ~IsList(arg.items[3])
    /\ result.status = "return"

====
